---------------------------- MODULE Spec2Model ----------------------------
(***************************************************************************)
(* A model of process_videos.py: the cue parser, the word normaliser, the  *)
(* subsequence locator, the common-phrase matcher, the time formatter, the *)
(* ASS document builder and the driver, main.                              *)
(*                                                                         *)
(* Text is modelled as a sequence of lexemes.  A lexeme is a one-character *)
(* string ("a", "B", "!", " ", "0", ":" ...) or one of the atomic markup   *)
(* strings "<u>", "</u>", "-->" and the ASS override blocks.  Python       *)
(* indices are kept 0-based wherever the code returns or compares them.    *)
(***************************************************************************)
EXTENDS Integers, Sequences, FiniteSets, TLC

VARIABLES
    pc,                 \* position of the call under study
    phrase_words,       \* find_subsequence_indices: haystack
    highlite_words,     \* find_subsequence_indices: needle
    indices,            \* find_subsequence_indices: returned list
    raised,             \* the exception that escaped the call, or "none"
    phrases,            \* calculate_highlight_phrase: the raw phrases
    candidate,          \* common_contiguous_subsequence: returned string
    computed,           \* calculate_highlight_phrase: returned string
    cues,               \* generate_ass_subtitles: the cue list
    phrase,             \* generate_ass_subtitles: the phrase text
    translation,        \* generate_ass_subtitles: the translation text
    video_width,        \* generate_ass_subtitles: canvas width
    video_height,       \* generate_ass_subtitles: canvas height
    highlite_phrase,    \* generate_ass_subtitles: the highlight target text
    ass,                \* generate_ass_subtitles: the document returned
    content,            \* parse_srt: the lines of the caption file
    srt_readable,       \* parse_srt: whether the file can be opened and read
    seconds,            \* seconds_to_ass_time: the time, in milliseconds
    ass_time,           \* seconds_to_ass_time: the string returned
    video_files,        \* main: the caption stream of each video found
    languages,          \* main: the target languages
    args_highlite_phrase, \* main: args.highlite_phrase
    api_ok,             \* translate_text: the service answers with status 200
    video_i,            \* main: 1-based position of the loop of line 697
    video_data,         \* main: the metadata of the videos retained
    temp_dirs,          \* the per-video temporary directories that exist
    chosen_phrase,      \* main: the highlight phrase of the run
    lang_i,             \* main: 1-based position of the loop over languages
    data_i,             \* main: 1-based position of the loop over video_data
    processed_videos,   \* main: videos processed in the current pass
    unit                \* the last call of process_video_with_metadata

locateVars == <<phrase_words, highlite_words, indices>>
matcherVars == <<phrases, candidate, computed>>

buildVars == <<cues, phrase, translation, video_width, video_height,
               highlite_phrase, ass>>

srtVars == <<content, srt_readable>>

timeVars == <<seconds, ass_time>>

mainVars == <<video_files, languages, args_highlite_phrase, api_ok, video_i,
              video_data, temp_dirs, chosen_phrase, lang_i, data_i,
              processed_videos, unit>>

vars == <<pc, raised, locateVars, matcherVars, buildVars, srtVars, timeVars,
          mainVars>>

(***************************************************************************)
(* Bounds of the model.                                                    *)
(***************************************************************************)
MaxHay == 4
MaxNeedle == 3
MaxPhrases == 4
MaxCues == 3
MaxBlocks == 3
MaxMillis == 1010
MaxVideos == 2

(***************************************************************************)
(* Generic helpers.                                                        *)
(***************************************************************************)
SeqsUpTo(S, n) == UNION {[1..k -> S] : k \in 0..n}

Min(a, b) == IF a <= b THEN a ELSE b

MaxOf(S) == CHOOSE x \in S : \A y \in S : y <= x

MinOf(S) == CHOOSE x \in S : \A y \in S : x <= y

\* Python's list(range(a, b)).
Range(a, b) == [k \in 1..(IF b > a THEN b - a ELSE 0) |-> a + k - 1]

\* Python's lst[a:b] for 0 <= a (0-based, end exclusive, clipped to the list).
Slice(lst, a, b) == SubSeq(lst, a + 1, Min(b, Len(lst)))

(***************************************************************************)
(* Words: the normalised words the locator and the matcher compare.        *)
(***************************************************************************)
NormWords == {<<"a">>, <<"b">>, <<>>}

(***************************************************************************)
(* find_subsequence_indices                                                *)
(***************************************************************************)
\* all(phrase_words[start_idx + j] == highlite_words[j] for j in range(L)),
\* evaluated left to right from j: "true", "false", or "IndexError" when a
\* subscript leaves the list before a mismatch is seen.
RECURSIVE AllMatch(_, _, _, _)
AllMatch(pw, hw, start_idx, j) ==
    IF j >= Len(hw)
    THEN "true"
    ELSE IF start_idx + j >= Len(pw)
         THEN "IndexError"
         ELSE IF pw[start_idx + j + 1] # hw[j + 1]
              THEN "false"
              ELSE AllMatch(pw, hw, start_idx, j + 1)

RECURSIVE FindFrom(_, _, _, _)
\* the for loop over range(stop), entered at start_idx
FindFrom(pw, hw, start_idx, stop) ==
    IF start_idx >= stop
    THEN [raised |-> "none", value |-> <<>>]
    ELSE LET m == AllMatch(pw, hw, start_idx, 0)
         IN  IF m = "IndexError"
             THEN [raised |-> "IndexError", value |-> <<>>]
             ELSE IF m = "true"
                  THEN [raised |-> "none",
                        value |-> Range(start_idx, start_idx + Len(hw))]
                  ELSE FindFrom(pw, hw, start_idx + 1, stop)

\* Faulty variant: the loop runs over range(N) instead of range(N - L + 1).
find_subsequence_indices_unbounded(pw, hw) ==
    IF hw = <<>> \/ pw = <<>>
    THEN [raised |-> "none", value |-> <<>>]
    ELSE FindFrom(pw, hw, 0, Len(pw))

RECURSIVE FindFromLast(_, _, _)
FindFromLast(pw, hw, start_idx) ==
    IF start_idx < 0
    THEN [raised |-> "none", value |-> <<>>]
    ELSE IF AllMatch(pw, hw, start_idx, 0) = "true"
         THEN [raised |-> "none",
               value |-> Range(start_idx, start_idx + Len(hw))]
         ELSE FindFromLast(pw, hw, start_idx - 1)

\* Faulty variant: the loop runs from the last start index down to 0.
find_subsequence_indices_last(pw, hw) ==
    IF hw = <<>> \/ pw = <<>>
    THEN [raised |-> "none", value |-> <<>>]
    ELSE FindFromLast(pw, hw, Len(pw) - Len(hw))

find_subsequence_indices(pw, hw) ==
    IF hw = <<>> \/ pw = <<>>
    THEN [raised |-> "none", value |-> <<>>]
    ELSE FindFrom(pw, hw, 0, Len(pw) - Len(hw) + 1)

(***************************************************************************)
(* Strings: str.split(), str.join(), str.lower(), str.strip().             *)
(***************************************************************************)
\* the characters str.split() and str.strip() treat as whitespace
Whitespace == {" "}

\* the characters the regular expression class \w matches
WordChars == {"a", "b", "c", "d", "u", "A", "B", "_",
              "0", "1", "2", "3", "4", "5", "6", "7", "8", "9"}

\* the characters an atomic markup lexeme stands for
Chars(lexeme) ==
    CASE lexeme = "<u>" -> <<"<", "u", ">">>
      [] lexeme = "</u>" -> <<"<", "/", "u", ">">>
      [] lexeme = "-->" -> <<"-", "-", ">">>
      [] OTHER -> <<lexeme>>

RECURSIVE Expand(_)
Expand(s) == IF s = <<>> THEN <<>> ELSE Chars(Head(s)) \o Expand(Tail(s))

\* str.lower() on one character
LowerChar(c) ==
    CASE c = "A" -> "a"
      [] c = "B" -> "b"
      [] OTHER -> c

Lower(s) == [i \in DOMAIN s |-> LowerChar(s[i])]

RECURSIVE SplitFrom(_, _, _, _)
\* str.split() scanning s from 1-based position i; cur is the token being
\* read, acc the tokens already closed
SplitFrom(s, i, cur, acc) ==
    IF i > Len(s)
    THEN IF cur = <<>> THEN acc ELSE Append(acc, cur)
    ELSE IF s[i] \in Whitespace
         THEN SplitFrom(s, i + 1, <<>>,
                        IF cur = <<>> THEN acc ELSE Append(acc, cur))
         ELSE SplitFrom(s, i + 1, Append(cur, s[i]), acc)

\* s.split()
Split(s) == SplitFrom(s, 1, <<>>, <<>>)

RECURSIVE Join(_, _)
\* sep.join(parts)
Join(parts, sep) ==
    IF parts = <<>>
    THEN <<>>
    ELSE IF Len(parts) = 1
         THEN parts[1]
         ELSE parts[1] \o sep \o Join(Tail(parts), sep)

\* s.strip() is non-empty
StripNonEmpty(s) == \E i \in DOMAIN s : s[i] \notin Whitespace

\* normalize_word: re.sub(r"[^\w]+", "", w.lower())
normalize_word(w) ==
    SelectSeq(Lower(Expand(w)), LAMBDA c : c \in WordChars)

(***************************************************************************)
(* contains_contiguous_subsequence, common_contiguous_subsequence          *)
(***************************************************************************)
RECURSIVE ContainsFrom(_, _, _)
\* the for loop over range(len(lst) - L + 1), entered at i
ContainsFrom(lst, sub, i) ==
    IF i >= Len(lst) - Len(sub) + 1
    THEN FALSE
    ELSE IF Slice(lst, i, i + Len(sub)) = sub
         THEN TRUE
         ELSE ContainsFrom(lst, sub, i + 1)

contains_contiguous_subsequence(lst, sub) == ContainsFrom(lst, sub, 0)

\* all(contains_contiguous_subsequence(other, candidate)
\*     for other in normalized_lists[1:])
InAllOthers(normalized_lists, cand) ==
    \A k \in 2..Len(normalized_lists) :
        contains_contiguous_subsequence(normalized_lists[k], cand)

RECURSIVE CommonFrom(_, _, _)
\* the two nested loops, entered at (length, start): length runs from n down
\* to 1 and, for each length, start runs from 0 to n - length
CommonFrom(normalized_lists, length, start) ==
    LET first == normalized_lists[1]
        n == Len(first)
    IN  IF length < 1
        THEN <<>>
        ELSE IF start >= n - length + 1
             THEN CommonFrom(normalized_lists, length - 1, 0)
             ELSE IF InAllOthers(normalized_lists,
                                 Slice(first, start, start + length))
                  THEN Join(Slice(first, start, start + length), <<" ">>)
                  ELSE CommonFrom(normalized_lists, length, start + 1)

RECURSIVE CommonShortestFrom(_, _, _)
CommonShortestFrom(normalized_lists, length, start) ==
    LET first == normalized_lists[1]
        n == Len(first)
    IN  IF length > n
        THEN <<>>
        ELSE IF start >= n - length + 1
             THEN CommonShortestFrom(normalized_lists, length + 1, 0)
             ELSE IF InAllOthers(normalized_lists,
                                 Slice(first, start, start + length))
                  THEN Join(Slice(first, start, start + length), <<" ">>)
                  ELSE CommonShortestFrom(normalized_lists, length, start + 1)

\* Faulty variant: the length loop runs upward, range(1, n + 1).
common_contiguous_subsequence_shortest(normalized_lists) ==
    CommonShortestFrom(normalized_lists, 1, 0)

common_contiguous_subsequence(normalized_lists) ==
    CommonFrom(normalized_lists, Len(normalized_lists[1]), 0)

(***************************************************************************)
(* calculate_highlight_phrase                                              *)
(***************************************************************************)
\* words = [normalize_word(w) for w in p.split() if normalize_word(w)]
Words(p) ==
    SelectSeq([i \in DOMAIN Split(p) |-> normalize_word(Split(p)[i])],
              LAMBDA w : w # <<>>)

RECURSIVE NormalizedFrom(_, _)
\* the loop building normalized_phrases, entered at 1-based phrase k
NormalizedFrom(ps, k) ==
    IF k > Len(ps)
    THEN <<>>
    ELSE IF Words(ps[k]) # <<>>
         THEN <<Words(ps[k])>> \o NormalizedFrom(ps, k + 1)
         ELSE NormalizedFrom(ps, k + 1)

NormalizedPhrases(ps) == NormalizedFrom(ps, 1)

RECURSIVE CombinationsFrom(_, _, _)
\* the r-element index tuples over lo..n, increasing, in lexicographic order
CombinationsFrom(lo, n, r) ==
    IF r = 0
    THEN << <<>> >>
    ELSE IF lo > n
         THEN <<>>
         ELSE LET rest == CombinationsFrom(lo + 1, n, r - 1)
              IN  [i \in DOMAIN rest |-> <<lo>> \o rest[i]]
                  \o CombinationsFrom(lo + 1, n, r)

\* itertools.combinations(range(1, n + 1), r), as a sequence
Combinations(n, r) == CombinationsFrom(1, n, r)

\* list(subset) for the index tuple c
Subset(normalized_phrases, c) == [i \in DOMAIN c |-> normalized_phrases[c[i]]]

RECURSIVE BestOverLast(_, _, _, _)
\* Faulty variant: the test is >=, so a later subset with a run of the same
\* word count replaces the current best.
BestOverLast(normalized_phrases, combos, k, best_candidate) ==
    IF k > Len(combos)
    THEN best_candidate
    ELSE LET cand == common_contiguous_subsequence(
                         Subset(normalized_phrases, combos[k]))
         IN  IF cand # <<>> /\ Len(Split(cand)) >= Len(Split(best_candidate))
             THEN BestOverLast(normalized_phrases, combos, k + 1, cand)
             ELSE BestOverLast(normalized_phrases, combos, k + 1,
                               best_candidate)

RECURSIVE BestOver(_, _, _, _)
\* the loop over the combinations, entered at the k-th one with best_candidate
BestOver(normalized_phrases, combos, k, best_candidate) ==
    IF k > Len(combos)
    THEN best_candidate
    ELSE LET cand == common_contiguous_subsequence(
                         Subset(normalized_phrases, combos[k]))
         IN  IF cand # <<>> /\ Len(Split(cand)) > Len(Split(best_candidate))
             THEN BestOver(normalized_phrases, combos, k + 1, cand)
             ELSE BestOver(normalized_phrases, combos, k + 1, best_candidate)

RECURSIVE FallbackUpFrom(_, _)
FallbackUpFrom(normalized_phrases, r) ==
    IF r >= Len(normalized_phrases)
    THEN <<>>
    ELSE LET best_candidate ==
                 BestOver(normalized_phrases,
                          Combinations(Len(normalized_phrases), r), 1, <<>>)
         IN  IF best_candidate # <<>>
             THEN best_candidate
             ELSE FallbackUpFrom(normalized_phrases, r + 1)

\* Faulty variant: the subset sizes are tried smallest first, range(2, total).
FallbackSmallestFirst(normalized_phrases, r) ==
    FallbackUpFrom(normalized_phrases, 2)

RECURSIVE FallbackDownToOne(_, _)
\* Faulty variant: the sizes run down to 1, range(total - 1, 0, -1).
FallbackDownToOne(normalized_phrases, r) ==
    IF r <= 0
    THEN <<>>
    ELSE LET best_candidate ==
                 BestOver(normalized_phrases,
                          Combinations(Len(normalized_phrases), r), 1, <<>>)
         IN  IF best_candidate # <<>>
             THEN best_candidate
             ELSE FallbackDownToOne(normalized_phrases, r - 1)

RECURSIVE FallbackFrom(_, _)
\* the loop over r in range(total - 1, 1, -1), entered at r
FallbackFrom(normalized_phrases, r) ==
    IF r <= 1
    THEN <<>>
    ELSE LET best_candidate ==
                 BestOver(normalized_phrases,
                          Combinations(Len(normalized_phrases), r), 1, <<>>)
         IN  IF best_candidate # <<>>
             THEN best_candidate
             ELSE FallbackFrom(normalized_phrases, r - 1)

\* Faulty variant: a single phrase is returned as given, not as its word list.
calculate_highlight_phrase_raw(ps) ==
    LET normalized_phrases == NormalizedPhrases(ps)
    IN  IF ps = <<>>
        THEN <<>>
        ELSE IF Len(ps) = 1
             THEN ps[1]
             ELSE IF normalized_phrases = <<>>
                  THEN <<>>
                  ELSE FallbackFrom(normalized_phrases,
                                    Len(normalized_phrases))

calculate_highlight_phrase(ps) ==
    LET normalized_phrases == NormalizedPhrases(ps)
    IN  IF ps = <<>>
        THEN <<>>
        ELSE IF normalized_phrases = <<>>
             THEN <<>>
             ELSE IF Len(normalized_phrases) = 1
                  THEN Join(normalized_phrases[1], <<" ">>)
                  ELSE LET cand ==
                               common_contiguous_subsequence(normalized_phrases)
                       IN  IF cand # <<>>
                           THEN cand
                           ELSE FallbackFrom(normalized_phrases,
                                             Len(normalized_phrases) - 1)

(***************************************************************************)
(* srt_time_to_seconds, parse_srt, clean_text, get_full_phrase_from_cues.  *)
(* A file is a sequence of lines, a line a sequence of lexemes.            *)
(***************************************************************************)
DigitChar(d) == <<"0", "1", "2", "3", "4", "5", "6", "7", "8", "9">>[d + 1]

DigitChars == {"0", "1", "2", "3", "4", "5", "6", "7", "8", "9"}

\* int(c) for one digit
DigitValue(c) == CHOOSE d \in 0..9 : DigitChar(d) = c

RECURSIVE IntOf(_)
\* int(text) for a non-empty run of digits
IntOf(text) ==
    IF Len(text) = 1
    THEN DigitValue(text[1])
    ELSE 10 * IntOf(SubSeq(text, 1, Len(text) - 1))
         + DigitValue(text[Len(text)])

\* int(text) succeeds
IsInt(text) == text # <<>> /\ \A i \in DOMAIN text : text[i] \in DigitChars

RECURSIVE SplitOnFrom(_, _, _, _, _)
SplitOnFrom(text, sep, i, cur, acc) ==
    IF i > Len(text)
    THEN Append(acc, cur)
    ELSE IF text[i] = sep
         THEN SplitOnFrom(text, sep, i + 1, <<>>, Append(acc, cur))
         ELSE SplitOnFrom(text, sep, i + 1, Append(cur, text[i]), acc)

\* text.split(sep): the empty fields are kept
SplitOn(text, sep) == SplitOnFrom(text, sep, 1, <<>>, <<>>)

\* srt_time_to_seconds, in milliseconds; the unpacking of a split into the
\* wrong number of fields and int() on a non-number raise ValueError
srt_time_to_seconds(time_str) ==
    LET fields == SplitOn(time_str, ":")
    IN  IF Len(fields) # 3
        THEN [raised |-> "ValueError", value |-> 0]
        ELSE LET s_ms == SplitOn(fields[3], ",")
             IN  IF Len(s_ms) # 2
                 THEN [raised |-> "ValueError", value |-> 0]
                 ELSE IF ~(IsInt(fields[1]) /\ IsInt(fields[2])
                           /\ IsInt(s_ms[1]) /\ IsInt(s_ms[2]))
                      THEN [raised |-> "ValueError", value |-> 0]
                      ELSE [raised |-> "none",
                            value |-> (IntOf(fields[1]) * 3600
                                       + IntOf(fields[2]) * 60
                                       + IntOf(s_ms[1])) * 1000
                                      + IntOf(s_ms[2])]

IsBlank(line) == \A i \in DOMAIN line : line[i] \in Whitespace

RECURSIVE LStrip(_)
LStrip(text) ==
    IF text # <<>> /\ Head(text) \in Whitespace THEN LStrip(Tail(text))
    ELSE text

RECURSIVE RStrip(_)
RStrip(text) ==
    IF text # <<>> /\ text[Len(text)] \in Whitespace
    THEN RStrip(SubSeq(text, 1, Len(text) - 1))
    ELSE text

RECURSIVE DropLeadingBlank(_)
DropLeadingBlank(lines) ==
    IF lines # <<>> /\ IsBlank(Head(lines)) THEN DropLeadingBlank(Tail(lines))
    ELSE lines

RECURSIVE DropTrailingBlank(_)
DropTrailingBlank(lines) ==
    IF lines # <<>> /\ IsBlank(lines[Len(lines)])
    THEN DropTrailingBlank(SubSeq(lines, 1, Len(lines) - 1))
    ELSE lines

\* text.strip() on a text given by its lines: the whitespace before the
\* first visible character and after the last one goes, line ends included
StripLines(lines) ==
    LET kept == DropTrailingBlank(DropLeadingBlank(lines))
    IN  [i \in DOMAIN kept |->
            LET l == IF i = 1 THEN LStrip(kept[i]) ELSE kept[i]
            IN  IF i = Len(kept) THEN RStrip(l) ELSE l]

RECURSIVE PartsFrom(_, _, _, _)
\* re.split(r'\n\s*\n', content) on the lines of a stripped text: a run of
\* whitespace-only lines separates two parts
PartsFrom(lines, i, cur, acc) ==
    IF i > Len(lines)
    THEN IF cur = <<>> THEN acc ELSE Append(acc, cur)
    ELSE IF IsBlank(lines[i])
         THEN PartsFrom(lines, i + 1, <<>>,
                        IF cur = <<>> THEN acc ELSE Append(acc, cur))
         ELSE PartsFrom(lines, i + 1, Append(cur, lines[i]), acc)

\* the parts of the file, each as part.strip().splitlines()
Parts(lines) ==
    LET parts == PartsFrom(StripLines(lines), 1, <<>>, <<>>)
    IN  [k \in DOMAIN parts |-> StripLines(parts[k])]

RECURSIVE ScanDigits(_, _)
\* \d+ is greedy: the position after the digits that start at i
ScanDigits(line, i) ==
    IF i <= Len(line) /\ line[i] \in DigitChars
    THEN ScanDigits(line, i + 1)
    ELSE i

RECURSIVE SkipSpace(_, _)
\* \s*
SkipSpace(line, i) ==
    IF i <= Len(line) /\ line[i] \in Whitespace
    THEN SkipSpace(line, i + 1)
    ELSE i

At(line, i) == IF i \in DOMAIN line THEN line[i] ELSE "$"

\* Faulty variant: the pattern is \d+:\d+:\d+[,.]\d+.
MatchTimecodeLoose(line, i) ==
    LET a == ScanDigits(line, i)
        b == ScanDigits(line, a + 1)
        c == ScanDigits(line, b + 1)
        d == ScanDigits(line, c + 1)
    IN  IF /\ a > i /\ At(line, a) = ":"
           /\ b > a + 1 /\ At(line, b) = ":"
           /\ c > b + 1 /\ At(line, c) \in {",", "."}
           /\ d > c + 1
        THEN d
        ELSE 0

\* \d+:\d+:\d+,\d+ matched at i: the position after the match, or 0
MatchTimecode(line, i) ==
    LET a == ScanDigits(line, i)
        b == ScanDigits(line, a + 1)
        c == ScanDigits(line, b + 1)
        d == ScanDigits(line, c + 1)
    IN  IF /\ a > i /\ At(line, a) = ":"
           /\ b > a + 1 /\ At(line, b) = ":"
           /\ c > b + 1 /\ At(line, c) = ","
           /\ d > c + 1
        THEN d
        ELSE 0

\* re.match(r'(\d+:\d+:\d+,\d+)\s*-->\s*(\d+:\d+:\d+,\d+)', time_line)
MatchTimeLine(time_line) ==
    LET e1 == MatchTimecode(time_line, 1)
        arrow == SkipSpace(time_line, e1)
        b2 == SkipSpace(time_line, arrow + 1)
        e2 == MatchTimecode(time_line, b2)
    IN  IF e1 # 0 /\ At(time_line, arrow) = "-->" /\ e2 # 0
        THEN [m |-> TRUE, group1 |-> SubSeq(time_line, 1, e1 - 1),
              group2 |-> SubSeq(time_line, b2, e2 - 1)]
        ELSE [m |-> FALSE, group1 |-> <<>>, group2 |-> <<>>]

RECURSIVE FirstFrom(_, _, _)
\* the first position >= i that holds the lexeme, or 0
FirstFrom(text, lexeme, i) ==
    IF i > Len(text) THEN 0
    ELSE IF text[i] = lexeme THEN i
    ELSE FirstFrom(text, lexeme, i + 1)

\* re.findall(r'<u>(.*?)</u>', text): whether there is a match, and the
\* group of the first one
Highlighted(text) ==
    LET open == FirstFrom(text, "<u>", 1)
        close == IF open = 0 THEN 0 ELSE FirstFrom(text, "</u>", open + 1)
    IN  IF close = 0
        THEN [found |-> FALSE, first |-> <<>>]
        ELSE [found |-> TRUE, first |-> SubSeq(text, open + 1, close - 1)]

RECURSIVE ParseFrom(_, _, _)
\* the loop over the parts, entered at part k with the cues found so far
ParseFrom(parts, k, found) ==
    IF k > Len(parts)
    THEN [raised |-> "none", value |-> found]
    ELSE LET lines == parts[k]
         IN  IF Len(lines) < 3
             THEN ParseFrom(parts, k + 1, found)
             ELSE LET text == Join(SubSeq(lines, 3, Len(lines)), <<" ">>)
                      m == MatchTimeLine(lines[2])
                      start == srt_time_to_seconds(m.group1)
                      end == srt_time_to_seconds(m.group2)
                      highlighted == Highlighted(text)
                  IN  IF ~m.m
                      THEN ParseFrom(parts, k + 1, found)
                      ELSE IF start.raised # "none"
                      THEN [raised |-> start.raised, value |-> <<>>]
                      ELSE IF end.raised # "none"
                      THEN [raised |-> end.raised, value |-> <<>>]
                      ELSE IF highlighted.found
                      THEN ParseFrom(parts, k + 1,
                               Append(found,
                                      [start |-> start.value,
                                       end |-> end.value,
                                       text |-> text,
                                       highlight |-> highlighted.first]))
                      ELSE ParseFrom(parts, k + 1, found)

\* parse_srt on a file with the given lines; an unreadable file and an
\* empty one give no cues
parse_srt(lines, readable) ==
    IF ~readable
    THEN [raised |-> "none", value |-> <<>>]
    ELSE IF StripLines(lines) = <<>>
         THEN [raised |-> "none", value |-> <<>>]
         ELSE ParseFrom(Parts(lines), 1, <<>>)

\* clean_text: re.sub(r'</?u>', '', text)
clean_text(text) == SelectSeq(text, LAMBDA x : x \notin {"<u>", "</u>"})

get_full_phrase_from_cues(cs) ==
    IF cs # <<>> THEN clean_text(cs[Len(cs)].text) ELSE <<>>

(***************************************************************************)
(* Configuration (module globals) and convert_color.                       *)
(***************************************************************************)
PHRASE_FONT_SIZE == 38
PHRASE_MARGIN_V == 80
PHRASE_ALIGNMENT == 2
TRANSLATION_FONT_SIZE == 24
TRANSLATION_MARGIN_V == 20
TRANSLATION_ALIGNMENT == 2
WEBSITE_FONT_SIZE == 20
WEBSITE_MARGIN_V == 10
WEBSITE_ALIGNMENT == 8
PHRASE_FONT == "Roboto-Regular"
TRANSLATION_FONT == "Roboto-Regular"
WEBSITE_FONT == "Roboto-Regular"
PHRASE_COLOR == "white"
PHRASE_HIGHLITE_COLOR == "yellow"
WORD_HIGHLITE_COLOR == "green"
TRANSLATION_COLOR == "white"
WEBSITE_COLOR == "white"
WEBSITE_TEXT == "playphrase.me"

\* colors.get(color_name.lower(), "&H00FFFFFF"); the names used are lower case
convert_color(color_name) ==
    CASE color_name = "white" -> "&H00FFFFFF"
      [] color_name = "black" -> "&H00000000"
      [] color_name = "yellow" -> "&H0031D1FD"
      [] color_name = "red" -> "&H000000FF"
      [] color_name = "green" -> "&H0000FF00"
      [] color_name = "blue" -> "&H00FF0000"
      [] color_name = "cyan" -> "&H00FFFF00"
      [] color_name = "gray" -> "&H00AAAAAA"
      [] color_name = "transparent" -> "&HFF000000"
      [] OTHER -> "&H00FFFFFF"

(***************************************************************************)
(* Times.  A time is a whole number of milliseconds; the code holds it as  *)
(* the double nearest to that many thousandths of a second.                *)
(***************************************************************************)
RECURSIVE Digits(_)
\* the decimal digits of n >= 0, as "{n}" prints them
Digits(n) ==
    IF n < 10 THEN <<DigitChar(n)>>
    ELSE Digits(n \div 10) \o <<DigitChar(n % 10)>>

\* "{n:02d}"
Pad2(n) == IF n < 10 THEN <<"0">> \o Digits(n) ELSE Digits(n)

\* The times ending in 5 ms lie halfway between two centiseconds as decimals
\* but not as doubles: the double is either above or below the tie, and
\* "{s:05.2f}" rounds accordingly.  These are the tie times the model draws
\* and, among them, those whose double (after "% 60") lies above the tie.
TabulatedTies == {5, 15, 25, 35, 45, 55, 65, 75, 85, 95,
                  1005, 2005, 59995, 61005}
DoubleAboveTie == {5, 25, 35, 55, 65, 85, 95, 61005}

\* the centiseconds "{s:05.2f}" prints for s = seconds % 60
RoundToCentis(ms) ==
    LET s_ms == ms % 60000
        q == s_ms \div 10
        r == s_ms % 10
    IN  IF r < 5 THEN q
        ELSE IF r > 5 THEN q + 1
        ELSE IF ms \in DoubleAboveTie THEN q + 1 ELSE q

\* seconds_to_ass_time: f"{h}:{m:02d}:{s:05.2f}"
seconds_to_ass_time(ms) ==
    LET h == ms \div 3600000
        m == (ms % 3600000) \div 60000
        cs == RoundToCentis(ms)
    IN  Digits(h) \o <<":">> \o Pad2(m) \o <<":">>
        \o Pad2(cs \div 100) \o <<".">> \o Pad2(cs % 100)

(***************************************************************************)
(* generate_ass_subtitles                                                  *)
(***************************************************************************)
\* int(round(value * video_width / 640.0)): round() takes an exact half to
\* the even neighbour.  The widths drawn give a scale that is exact as a
\* double.
\* Faulty variant: the scale is video_width / 480.0.
ScaledRoundBy480(value, width) ==
    LET num == value * width
        q == num \div 480
        r == num % 480
    IN  IF 2 * r < 480 THEN q
        ELSE IF 2 * r > 480 THEN q + 1
        ELSE IF q % 2 = 0 THEN q ELSE q + 1

ScaledRound(value, width) ==
    LET num == value * width
        q == num \div 640
        r == num % 640
    IN  IF 2 * r < 640 THEN q
        ELSE IF 2 * r > 640 THEN q + 1
        ELSE IF q % 2 = 0 THEN q ELSE q + 1

\* Faulty variant: the phrase tokens are compared as written, not normalised.
HighlightIndicesRaw(ph, hp) ==
    LET highlite_words_raw == SelectSeq(Split(hp), StripNonEmpty)
    IN  IF highlite_words_raw # <<>>
        THEN find_subsequence_indices(Split(ph), highlite_words_raw).value
        ELSE <<>>

\* lines 352-358: the indices of the phrase tokens to colour
HighlightIndices(ph, hp) ==
    LET words_original == Split(ph)
        words_normalized ==
            [i \in DOMAIN words_original |-> normalize_word(words_original[i])]
        highlite_words_raw == SelectSeq(Split(hp), StripNonEmpty)
        highlite_words_normalized ==
            [i \in DOMAIN highlite_words_raw |->
                normalize_word(highlite_words_raw[i])]
    IN  IF highlite_words_normalized # <<>>
        THEN find_subsequence_indices(words_normalized,
                                      highlite_words_normalized).value
        ELSE <<>>

\* i in highlight_indices
InList(i, lst) == \E k \in DOMAIN lst : lst[k] = i

\* lines 398-405: base_line_text
BaseLineText(words_original, highlight_indices) ==
    Join([k \in DOMAIN words_original |->
            IF InList(k - 1, highlight_indices)
            THEN <<"{\\c", convert_color(PHRASE_HIGHLITE_COLOR), "}">>
                 \o words_original[k]
                 \o <<"{\\c", convert_color(PHRASE_COLOR), "}">>
            ELSE words_original[k]],
         <<" ">>)

\* Faulty variant: the test is j == i + 1.
HighlightLineTextOffByOne(words_original, i) ==
    Join([k \in DOMAIN words_original |->
            IF k - 1 = i + 1
            THEN <<"{\\alpha&H00&}">> \o words_original[k]
                 \o <<"{\\alpha&HFF&}">>
            ELSE <<"{\\alpha&HFF&}">> \o words_original[k]],
         <<" ">>)

\* lines 414-420: highlight_line_text for cue index i (0-based)
HighlightLineText(words_original, i) ==
    Join([k \in DOMAIN words_original |->
            IF k - 1 = i
            THEN <<"{\\alpha&H00&}">> \o words_original[k]
                 \o <<"{\\alpha&HFF&}">>
            ELSE <<"{\\alpha&HFF&}">> \o words_original[k]],
         <<" ">>)

Dialogue(layer, start, end, style, text) ==
    [Layer |-> layer, Start |-> start, End |-> end, Style |-> style,
     Text |-> text]

Style(name, font, size, primary, secondary, outline, alignment, lr, v) ==
    [Name |-> name, Fontname |-> font, Fontsize |-> size,
     PrimaryColour |-> primary, SecondaryColour |-> secondary,
     Outline |-> outline, Alignment |-> alignment, MarginL |-> lr,
     MarginR |-> lr, MarginV |-> v]

\* lines 334-339: the window, in milliseconds
TotalStart(cs) == IF cs = <<>> THEN 0 ELSE cs[1].start

\* Faulty variant: the window ends with the first cue, cues[0]["end"].
TotalEndFirstCue(cs) == IF cs = <<>> THEN 5000 ELSE cs[1].end

TotalEnd(cs) == IF cs = <<>> THEN 5000 ELSE cs[Len(cs)].end

\* lines 407-421: the karaoke events
KaraokeEvents(cs, words_original) ==
    [k \in 1..Min(Len(cs), Len(words_original)) |->
        Dialogue(1, seconds_to_ass_time(cs[k].start),
                 seconds_to_ass_time(cs[k].end), "Highlight",
                 HighlightLineText(words_original, k - 1))]

\* Faulty variant: the test is "if translation:", without strip().
TranslationEventsNoStrip(tr, start_time_ass, end_time_ass) ==
    IF tr # <<>>
    THEN <<Dialogue(0, start_time_ass, end_time_ass, "Translation",
                    <<"{\\q3}">> \o tr)>>
    ELSE <<>>

\* lines 422-423: the translation event
TranslationEvents(tr, start_time_ass, end_time_ass) ==
    IF StripNonEmpty(tr)
    THEN <<Dialogue(0, start_time_ass, end_time_ass, "Translation",
                    <<"{\\q3}">> \o tr)>>
    ELSE <<>>

generate_ass_subtitles(cs, ph, tr, width, height, hp) ==
    LET start_time_ass == seconds_to_ass_time(TotalStart(cs))
        end_time_ass == seconds_to_ass_time(TotalEnd(cs))
        scaled_margin_lr == ScaledRound(10, width)
        scaled_outline == ScaledRound(2, width)
        words_original == Split(ph)
        highlight_indices == HighlightIndices(ph, hp)
    IN  [PlayResX |-> width,
         PlayResY |-> height,
         styles |->
            <<Style("Base", PHRASE_FONT,
                    ScaledRound(PHRASE_FONT_SIZE, width),
                    convert_color(PHRASE_COLOR), convert_color(PHRASE_COLOR),
                    scaled_outline, PHRASE_ALIGNMENT, scaled_margin_lr,
                    ScaledRound(PHRASE_MARGIN_V, width)),
              Style("Highlight", PHRASE_FONT,
                    ScaledRound(PHRASE_FONT_SIZE, width),
                    convert_color(WORD_HIGHLITE_COLOR),
                    convert_color("transparent"),
                    scaled_outline, PHRASE_ALIGNMENT, scaled_margin_lr,
                    ScaledRound(PHRASE_MARGIN_V, width)),
              Style("Translation", TRANSLATION_FONT,
                    ScaledRound(TRANSLATION_FONT_SIZE, width),
                    convert_color(TRANSLATION_COLOR),
                    convert_color(TRANSLATION_COLOR),
                    scaled_outline, TRANSLATION_ALIGNMENT, scaled_margin_lr,
                    ScaledRound(TRANSLATION_MARGIN_V, width)),
              Style("Website", WEBSITE_FONT,
                    ScaledRound(WEBSITE_FONT_SIZE, width),
                    convert_color(WEBSITE_COLOR), convert_color(WEBSITE_COLOR),
                    scaled_outline, WEBSITE_ALIGNMENT, scaled_margin_lr,
                    ScaledRound(WEBSITE_MARGIN_V, width))>>,
         events |->
            <<Dialogue(0, start_time_ass, end_time_ass, "Base",
                       BaseLineText(words_original, highlight_indices))>>
            \o KaraokeEvents(cs, words_original)
            \o TranslationEvents(tr, start_time_ass, end_time_ass)
            \o <<Dialogue(2, start_time_ass, end_time_ass, "Website",
                          <<WEBSITE_TEXT>>)>>]

(***************************************************************************)
(* Specification of the locator: the inputs are drawn in the initial       *)
(* state, the call is one step.                                            *)
(***************************************************************************)
\* The variables a specification does not use keep these values.
IdleLocate ==
    /\ phrase_words = <<>>
    /\ highlite_words = <<>>
    /\ indices = <<>>

IdleMatcher ==
    /\ phrases = <<>>
    /\ candidate = <<>>
    /\ computed = <<>>

IdleSrt ==
    /\ content = <<>>
    /\ srt_readable = TRUE

IdleTime ==
    /\ seconds = 0
    /\ ass_time = <<>>

NoUnit == [video |-> 0, lang |-> "", fault |-> "none", result |-> "none"]

IdleMain ==
    /\ video_files = <<>>
    /\ languages = <<>>
    /\ args_highlite_phrase = <<>>
    /\ api_ok = TRUE
    /\ video_i = 1
    /\ video_data = <<>>
    /\ temp_dirs = {}
    /\ chosen_phrase = <<>>
    /\ lang_i = 1
    /\ data_i = 1
    /\ processed_videos = <<>>
    /\ unit = NoUnit

NoDocument == [PlayResX |-> 0, PlayResY |-> 0, styles |-> <<>>, events |-> <<>>]

IdleBuild ==
    /\ cues = <<>>
    /\ phrase = <<>>
    /\ translation = <<>>
    /\ video_width = 0
    /\ video_height = 0
    /\ highlite_phrase = <<>>
    /\ ass = NoDocument

InitLocate ==
    /\ pc = "locate"
    /\ phrase_words \in SeqsUpTo(NormWords, MaxHay)
    /\ highlite_words \in SeqsUpTo(NormWords, MaxNeedle)
    /\ indices = <<>>
    /\ raised = "none"
    /\ IdleMatcher
    /\ IdleBuild
    /\ IdleSrt
    /\ IdleTime
    /\ IdleMain

FindSubsequenceIndices ==
    /\ pc = "locate"
    /\ LET r == find_subsequence_indices(phrase_words, highlite_words)
       IN  /\ indices' = r.value
           /\ raised' = r.raised
    /\ pc' = "located"
    /\ UNCHANGED <<phrase_words, highlite_words, matcherVars, buildVars,
                   srtVars, timeVars, mainVars>>

NextLocate == FindSubsequenceIndices

SpecLocate == InitLocate /\ [][NextLocate]_vars

(***************************************************************************)
(* Specification of the matcher.                                           *)
(***************************************************************************)
\* the raw phrases a video can carry
PhrasePool ==
    { <<"a", " ", "b">>,
      <<"b", " ", "c", " ", "a", " ", "b">>,
      <<"A", " ", "b", "!", " ", "c">>,
      <<"b", " ", "c", " ", "d">>,
      <<"d", "d">>,
      <<"!", " ", " ", "a", "b">>,
      <<"!", " ">> }

InitMatcher ==
    /\ pc = "match"
    /\ phrases \in SeqsUpTo(PhrasePool, MaxPhrases)
    /\ candidate = <<>>
    /\ computed = <<>>
    /\ raised = "none"
    /\ IdleLocate
    /\ IdleBuild
    /\ IdleSrt
    /\ IdleTime
    /\ IdleMain

\* the full-set search applied to the normalised phrases, as lines 315 and
\* 323 call it: on two or more word lists
CommonContiguousSubsequence ==
    /\ pc = "match"
    /\ Len(NormalizedPhrases(phrases)) >= 2
    /\ candidate' = common_contiguous_subsequence(NormalizedPhrases(phrases))
    /\ pc' = "searched"
    /\ UNCHANGED <<phrases, computed, raised, locateVars, buildVars, srtVars,
                   timeVars, mainVars>>

CalculateHighlightPhrase ==
    /\ pc = "match"
    /\ computed' = calculate_highlight_phrase(phrases)
    /\ pc' = "calculated"
    /\ UNCHANGED <<phrases, candidate, raised, locateVars, buildVars, srtVars,
                   timeVars, mainVars>>

NextMatcher == CommonContiguousSubsequence \/ CalculateHighlightPhrase

SpecMatcher == InitMatcher /\ [][NextMatcher]_vars

(***************************************************************************)
(* Specification of the document builder.                                  *)
(***************************************************************************)
\* cues as parse_srt builds them: times in milliseconds
Cue(start, end, text, highlight) ==
    [start |-> start, end |-> end, text |-> text, highlight |-> highlight]

CuePool ==
    { Cue(0, 1000, <<"<u>", "a", "</u>">>, <<"a">>),
      Cue(1000, 2005, <<"a", " ", "<u>", "B", "!", "</u>">>, <<"B", "!">>),
      Cue(59996, 61005, <<"<u>", "</u>">>, <<>>),
      Cue(3600000, 1500, <<"<u>", "b", "</u>">>, <<"b">>) }

BuildPhrasePool ==
    { <<>>,
      <<"a", " ", "B", "!">>,
      <<"a", " ", "b", " ", "a", " ", "b">>,
      <<"-", " ", "b", " ", " ", "a">>,
      <<"b", " ", "!", " ", "a", " ", "b">> }

HighlitePool ==
    { <<>>,
      <<"b">>,
      <<"a", " ", "b">>,
      <<"!">>,
      <<"b", " ", "a">>,
      <<"c">> }

TranslationPool == { <<>>, <<" ">>, <<"x", " ", "y">> }

SizePool == { <<640, 480>>, <<1280, 720>> }

InitBuild ==
    /\ pc = "build"
    /\ cues \in SeqsUpTo(CuePool, MaxCues)
    /\ phrase \in BuildPhrasePool
    /\ translation \in TranslationPool
    /\ \E size \in SizePool :
           /\ video_width = size[1]
           /\ video_height = size[2]
    /\ highlite_phrase \in HighlitePool
    /\ ass = NoDocument
    /\ raised = "none"
    /\ IdleLocate
    /\ IdleMatcher
    /\ IdleSrt
    /\ IdleTime
    /\ IdleMain

GenerateAssSubtitles ==
    /\ pc = "build"
    /\ ass' = generate_ass_subtitles(cues, phrase, translation, video_width,
                                     video_height, highlite_phrase)
    /\ pc' = "built"
    /\ UNCHANGED <<cues, phrase, translation, video_width, video_height,
                   highlite_phrase, raised, locateVars, matcherVars,
                   srtVars, timeVars, mainVars>>

NextBuild == GenerateAssSubtitles

SpecBuild == InitBuild /\ [][NextBuild]_vars

(***************************************************************************)
(* Specification of the cue parser.                                        *)
(***************************************************************************)
Code1 == <<"0", ":", "0", ":", "1", ",", "0", "0", "0">>
Code2 == <<"0", ":", "0", ":", "2", ",", "5", "0", "0">>
Code3 == <<"0", "0", ":", "0", "1", ":", "0", "0", ",", "5">>
CodeDot == <<"0", ":", "0", ":", "1", ".", "0", "0", "0">>
Arrow == <<" ", "-->", " ">>

\* the blocks a caption file is made of
BlockPool ==
    { \* index, timecodes, one marked text line
      << <<"1">>, Code1 \o Arrow \o Code2, <<"<u>", "a", "</u>">> >>,
      \* start after end, two text lines, the second one marked
      << <<"2">>, Code3 \o Arrow \o Code1,
         <<"a">>, <<"<u>", "B", "!", "</u>", " ", "c">> >>,
      \* no marker
      << <<"3">>, Code1 \o Arrow \o Code2, <<"a", " ", "b">> >>,
      \* a dot for the comma of the start timecode
      << <<"4">>, CodeDot \o Arrow \o Code2, <<"<u>", "b", "</u>">> >>,
      \* no index line: two lines only
      << Code1 \o Arrow \o Code2, <<"<u>", "a", "</u>">> >>,
      \* no space around the arrow, text after the end timecode, empty marker
      << <<"6">>, Code2 \o <<"-->">> \o Code3 \o <<" ", "a">>,
         <<"<u>", "</u>", "d">> >>,
      \* a malformed arrow
      << <<"7">>, Code1 \o <<" ", "->", " ">> \o Code2,
         <<"<u>", "a", "</u>">> >>,
      \* a marker that is opened and not closed
      << <<"8">>, Code1 \o Arrow \o Code2, <<"<u>", "a">> >> }

\* the blank lines between two blocks
SeparatorPool == { << <<>> >>, << <<" ">>, <<>> >> }

RECURSIVE FileOf(_, _)
\* the lines of the file made of the blocks, with the separator between them
FileOf(blocks, sep) ==
    IF blocks = <<>> THEN <<>>
    ELSE IF Len(blocks) = 1 THEN blocks[1]
    ELSE blocks[1] \o sep \o FileOf(Tail(blocks), sep)

InitSrt ==
    /\ pc = "parse"
    /\ \E blocks \in SeqsUpTo(BlockPool, MaxBlocks) :
       \E sep \in SeparatorPool :
           content \in {FileOf(blocks, sep), sep \o FileOf(blocks, sep) \o sep}
    /\ srt_readable \in BOOLEAN
    /\ raised = "none"
    /\ IdleLocate
    /\ IdleMatcher
    /\ IdleBuild
    /\ IdleTime
    /\ IdleMain

ParseSrt ==
    /\ pc = "parse"
    /\ LET r == parse_srt(content, srt_readable)
       IN  /\ cues' = r.value
           /\ raised' = r.raised
    /\ pc' = "parsed"
    /\ UNCHANGED <<phrase, translation, video_width, video_height,
                   highlite_phrase, ass, locateVars, matcherVars, srtVars,
                   timeVars, mainVars>>

NextSrt == ParseSrt

SpecSrt == InitSrt /\ [][NextSrt]_vars

(***************************************************************************)
(* Specification of the time formatter.                                    *)
(***************************************************************************)
\* the times drawn lie up to MaxMillis after each of these
TimeBases == {0, 59000, 3599000, 35999000}

\* whole milliseconds; of the times that end in 5 ms, the tabulated ones
TimePool ==
    {t \in {b + d : b \in TimeBases, d \in 0..MaxMillis} : t % 10 # 5}
        \cup TabulatedTies

InitTime ==
    /\ pc = "format"
    /\ seconds \in TimePool
    /\ ass_time = <<>>
    /\ raised = "none"
    /\ IdleLocate
    /\ IdleMatcher
    /\ IdleBuild
    /\ IdleSrt
    /\ IdleMain

SecondsToAssTime ==
    /\ pc = "format"
    /\ ass_time' = seconds_to_ass_time(seconds)
    /\ pc' = "formatted"
    /\ UNCHANGED <<seconds, raised, locateVars, matcherVars, buildVars,
                   srtVars, mainVars>>

NextTime == SecondsToAssTime

SpecTime == InitTime /\ [][NextTime]_vars

(***************************************************************************)
(* Specification of the driver, main.  A video stands for its caption      *)
(* stream; its position in video_files names its path and its temporary    *)
(* directory.  The extraction and the burn-in are done by an external       *)
(* program that may fail, the translation by an external service.          *)
(***************************************************************************)
Timing == Code1 \o Arrow \o Code2

\* the caption streams a video can carry
VideoPool ==
    { << <<"1">>, Timing, <<"<u>", "a", "</u>", " ", "b">> >>,
      << <<"1">>, Timing, <<"<u>", "a", "</u>", " ", "-", " ", "b">> >>,
      << <<"1">>, Timing, <<"<u>", "B", "</u>", " ", "c">> >>,
      \* no marked text: no cue
      << <<"1">>, Timing, <<"a", " ", "b">> >> }

\* --translate_lang: none, one language, a list
LanguagePool == { <<>>, <<"es">>, <<"es", "fr">> }

\* --highlite_phrase
ArgPhrasePool == { <<>>, <<" ">>, <<"B">> }

\* translate_text: the empty string for a blank text or a refused request
translate_text(text, target_language, ok) ==
    IF ~StripNonEmpty(text)
    THEN <<>>
    ELSE IF ok
         THEN <<"x", " ", target_language>>
         ELSE <<>>

\* extract_video_metadata for the video at position v: None is <<>>, a
\* record is a list of one
extract_video_metadata(v, subtitles, translate_lang, extracted, ok) ==
    LET parsed == parse_srt(subtitles, TRUE).value
        text == get_full_phrase_from_cues(parsed)
    IN  IF ~extracted \/ parsed = <<>>
        THEN <<>>
        ELSE <<[video |-> v,
                cues |-> parsed,
                phrase |-> text,
                translation |->
                    IF translate_lang # <<>>
                    THEN translate_text(text, translate_lang[1], ok)
                    ELSE <<>>,
                width |-> 640,
                height |-> 480]>>

\* line 720: next((p for p in phrases if p.strip()), "output")
FirstNonBlank(ps) ==
    IF \E k \in DOMAIN ps : StripNonEmpty(ps[k])
    THEN ps[MinOf({k \in DOMAIN ps : StripNonEmpty(ps[k])})]
    ELSE <<"o", "u", "t", "p", "u", "t">>

\* lines 711-720
ChosenPhrase(arg, ps) ==
    IF StripNonEmpty(arg)
    THEN Lower(arg)
    ELSE LET c == calculate_highlight_phrase(ps)
         IN  IF StripNonEmpty(c) THEN c ELSE Lower(FirstNonBlank(ps))

\* the language codes of the passes over video_data: one pass per language
\* in multiple-language mode, one pass without a code otherwise
Passes == IF Len(languages) >= 2 THEN languages ELSE <<"">>

\* Faulty variant: the loop of line 697 is left after the first video.
GatherCompleteAfterFirst == video_i > Min(1, Len(video_files))

\* the loop of line 697 has visited every video
GatherComplete == video_i > Len(video_files)

InitMain ==
    /\ pc = "gather"
    /\ video_files \in SeqsUpTo(VideoPool, MaxVideos)
    /\ languages \in LanguagePool
    /\ args_highlite_phrase \in ArgPhrasePool
    /\ api_ok \in BOOLEAN
    /\ video_i = 1
    /\ video_data = <<>>
    /\ temp_dirs = {}
    /\ chosen_phrase = <<>>
    /\ lang_i = 1
    /\ data_i = 1
    /\ processed_videos = <<>>
    /\ unit = NoUnit
    /\ raised = "none"
    /\ IdleLocate
    /\ IdleMatcher
    /\ IdleBuild
    /\ IdleSrt
    /\ IdleTime

\* one turn of the loop of lines 697-705
ExtractVideoMetadata ==
    /\ pc = "gather"
    /\ ~GatherComplete
    /\ \E extracted \in BOOLEAN :
           LET data == extract_video_metadata(
                           video_i, video_files[video_i],
                           IF Len(languages) = 1 THEN languages ELSE <<>>,
                           extracted, api_ok)
           IN  /\ video_data' = video_data \o data
               /\ temp_dirs' = IF data = <<>>
                               THEN temp_dirs
                               ELSE temp_dirs \cup {video_i}
    /\ video_i' = video_i + 1
    /\ UNCHANGED <<pc, raised, video_files, languages, args_highlite_phrase,
                   api_ok, chosen_phrase, lang_i, data_i, processed_videos,
                   unit, locateVars, matcherVars, buildVars, srtVars,
                   timeVars>>

\* lines 706-720, after the loop
ChoosePhrase ==
    /\ pc = "gather"
    /\ GatherComplete
    /\ IF video_data = <<>>
       THEN /\ pc' = "done"
            /\ UNCHANGED <<phrases, computed, chosen_phrase>>
       ELSE /\ phrases' = [k \in DOMAIN video_data |-> video_data[k].phrase]
            /\ computed' = IF StripNonEmpty(args_highlite_phrase)
                           THEN computed
                           ELSE calculate_highlight_phrase(phrases')
            /\ chosen_phrase' = ChosenPhrase(args_highlite_phrase, phrases')
            /\ pc' = "process"
    /\ UNCHANGED <<raised, candidate, video_files, languages,
                   args_highlite_phrase, api_ok, video_i, video_data,
                   temp_dirs, lang_i, data_i, processed_videos, unit,
                   locateVars, buildVars, srtVars, timeVars>>

\* one call of process_video_with_metadata (lines 562-622) from the loops of
\* lines 727, 757 and 777, with the bookkeeping of the loop around it.  The
\* document is written into the temporary directory of the video; a failed
\* step removes that directory with shutil.rmtree, which raises when the
\* directory is not there.
ProcessVideoWithMetadata ==
    /\ pc = "process"
    /\ lang_i <= Len(Passes)
    /\ LET data == video_data[data_i]
           lang_code == Passes[lang_i]
           translation_text ==
               IF Len(languages) >= 2
               THEN translate_text(data.phrase, lang_code, api_ok)
               ELSE data.translation
           last == data_i = Len(video_data)
           earlier == IF data_i = 1 THEN <<>> ELSE processed_videos
       IN  /\ cues' = data.cues
           /\ phrase' = data.phrase
           /\ translation' = translation_text
           /\ video_width' = data.width
           /\ video_height' = data.height
           /\ highlite_phrase' = chosen_phrase
           /\ ass' = generate_ass_subtitles(data.cues, data.phrase,
                                            translation_text, data.width,
                                            data.height, chosen_phrase)
           /\ \E fault \in {"none", "write", "burn"} :
                  IF fault = "none" /\ data.video \in temp_dirs
                  THEN /\ processed_videos' = Append(earlier, data.video)
                       /\ unit' = [video |-> data.video, lang |-> lang_code,
                                   fault |-> fault, result |-> "ok"]
                       /\ data_i' = IF last THEN 1 ELSE data_i + 1
                       /\ lang_i' = IF last THEN lang_i + 1 ELSE lang_i
                       /\ UNCHANGED <<pc, raised, temp_dirs>>
                  ELSE IF data.video \in temp_dirs
                       THEN /\ temp_dirs' = temp_dirs \ {data.video}
                            /\ processed_videos' = earlier
                            /\ unit' = [video |-> data.video,
                                        lang |-> lang_code,
                                        fault |-> fault,
                                        result |-> "failed"]
                            /\ data_i' = IF last THEN 1 ELSE data_i + 1
                            /\ lang_i' = IF last THEN lang_i + 1 ELSE lang_i
                            /\ UNCHANGED <<pc, raised>>
                       ELSE /\ pc' = "aborted"
                            /\ raised' = "FileNotFoundError"
                            /\ unit' = [video |-> data.video,
                                        lang |-> lang_code,
                                        fault |-> fault,
                                        result |-> "aborted"]
                            /\ UNCHANGED <<temp_dirs, processed_videos,
                                           data_i, lang_i>>
    /\ UNCHANGED <<video_files, languages, args_highlite_phrase, api_ok,
                   video_i, video_data, chosen_phrase, locateVars,
                   matcherVars, srtVars, timeVars>>

\* lines 797-812, after the passes
CleanUp ==
    /\ pc = "process"
    /\ lang_i > Len(Passes)
    /\ temp_dirs' = {}
    /\ pc' = "done"
    /\ UNCHANGED <<raised, video_files, languages, args_highlite_phrase,
                   api_ok, video_i, video_data, chosen_phrase, lang_i,
                   data_i, processed_videos, unit, locateVars, matcherVars,
                   buildVars, srtVars, timeVars>>

NextMain ==
    \/ ExtractVideoMetadata
    \/ ChoosePhrase
    \/ ProcessVideoWithMetadata
    \/ CleanUp

SpecMain == InitMain /\ [][NextMain]_vars

(***************************************************************************)
(* Properties of the locator.                                              *)
(***************************************************************************)
\* needle occurs in haystack as a contiguous run starting at 0-based s
OccursAt(haystack, needle, s) ==
    /\ s + Len(needle) <= Len(haystack)
    /\ SubSeq(haystack, s + 1, s + Len(needle)) = needle

\* every 0-based start at which the needle occurs
Starts(haystack, needle) ==
    {s \in 0..Len(haystack) : OccursAt(haystack, needle, s)}

LeastStart(haystack, needle) ==
    CHOOSE s \in Starts(haystack, needle) :
        \A t \in Starts(haystack, needle) : s <= t

\* C4: when the non-empty needle occurs in the haystack, the returned indices
\* are start .. start + len(needle) - 1 for the least start at which it
\* occurs, and every returned index is a position of the haystack.
C4_LeftmostMatch ==
    pc = "located" =>
        /\ \A k \in DOMAIN indices : indices[k] \in 0..(Len(phrase_words) - 1)
        /\ (highlite_words # <<>> /\ Starts(phrase_words, highlite_words) # {}) =>
               /\ Len(indices) = Len(highlite_words)
               /\ \A k \in DOMAIN indices :
                      indices[k] = LeastStart(phrase_words, highlite_words) + k - 1

\* C4 witness: the needle occurs at two different starts, and the span of
\* the first one was returned.
C4_Witness ==
    /\ pc = "located"
    /\ highlite_words # <<>>
    /\ Cardinality(Starts(phrase_words, highlite_words)) >= 2
    /\ Len(highlite_words) >= 2
    /\ indices # <<>>
    /\ indices[1] = LeastStart(phrase_words, highlite_words)

\* C5: the call raises nothing; it returns the empty span when the needle is
\* empty, the haystack is empty, the needle is longer than the haystack or
\* the needle does not occur; a non-empty span is returned only when the
\* needle occurs.
C5_EmptySpanNoError ==
    pc = "located" =>
        /\ raised = "none"
        /\ (\/ highlite_words = <<>>
            \/ phrase_words = <<>>
            \/ Len(highlite_words) > Len(phrase_words)
            \/ Starts(phrase_words, highlite_words) = {}) => indices = <<>>
        /\ indices # <<>> =>
               /\ highlite_words # <<>>
               /\ Starts(phrase_words, highlite_words) # {}

\* C5 witness: a non-empty needle that fits in the haystack but does not
\* occur in it, although its first word does; the empty span was returned.
C5_Witness ==
    /\ pc = "located"
    /\ raised = "none"
    /\ highlite_words # <<>>
    /\ Len(highlite_words) <= Len(phrase_words)
    /\ Len(highlite_words) >= 2
    /\ \E k \in DOMAIN phrase_words : phrase_words[k] = highlite_words[1]
    /\ Starts(phrase_words, highlite_words) = {}
    /\ indices = <<>>

(***************************************************************************)
(* Properties of the matcher.                                              *)
(***************************************************************************)
\* the non-empty contiguous runs of a word list
Runs(lst) ==
    {SubSeq(lst, i, j) : i \in 1..Len(lst), j \in 1..Len(lst)} \ {<<>>}

OccursIn(run, lst) == Starts(lst, run) # {}

\* the non-empty runs that occur in every list whose index is in S
CommonRuns(lists, S) ==
    {w \in UNION {Runs(lists[k]) : k \in S} :
        \A k \in S : OccursIn(w, lists[k])}

\* the word count of the longest run common to the lists of S
LongestIn(lists, S) == MaxOf({Len(w) : w \in CommonRuns(lists, S)})

\* C1: when some non-empty run of the first phrase occurs in every other
\* phrase, the full-set search returns the run of the first phrase that is
\* common to all, of the greatest length, and among those the one with the
\* least start index in the first phrase.
C1_LongestLeftmostCommon ==
    pc = "searched" =>
        LET lists == NormalizedPhrases(phrases)
            first == lists[1]
            all == 1..Len(lists)
        IN  CommonRuns(lists, all) # {} =>
                LET n == LongestIn(lists, all)
                    s == MinOf({t \in 0..(Len(first) - n) :
                                  SubSeq(first, t + 1, t + n)
                                      \in CommonRuns(lists, all)})
                IN  /\ candidate = Join(SubSeq(first, s + 1, s + n), <<" ">>)
                    /\ Split(candidate) \in CommonRuns(lists, all)
                    /\ \A w \in CommonRuns(lists, all) :
                           Len(w) <= Len(Split(candidate))

\* C1 witness: two different runs of the greatest common length exist in the
\* first phrase, a shorter common run exists too, and a run was returned.
C1_Witness ==
    /\ pc = "searched"
    /\ LET lists == NormalizedPhrases(phrases)
           all == 1..Len(lists)
       IN  /\ CommonRuns(lists, all) # {}
           /\ LongestIn(lists, all) >= 2
           /\ Cardinality({w \in CommonRuns(lists, all) :
                              Len(w) = LongestIn(lists, all)}) >= 2
    /\ candidate # <<>>

\* the subsets of 1..total with r elements
SubsetsOfSize(total, r) == {S \in SUBSET (1..total) : Cardinality(S) = r}

\* some r of the lists share a run
Shared(lists, r) ==
    \E S \in SubsetsOfSize(Len(lists), r) : CommonRuns(lists, S) # {}

\* the word count of the longest run shared by some r of the lists
BestLen(lists, r) ==
    MaxOf({Len(w) : w \in UNION {CommonRuns(lists, S) :
                                    S \in SubsetsOfSize(Len(lists), r)}})

C2_WitnessEmpty ==
    /\ pc = "calculated"
    /\ Len(NormalizedPhrases(phrases)) = 2
    /\ CommonRuns(NormalizedPhrases(phrases), 1..2) = {}
    /\ computed = <<>>

\* C3: no phrase gives the empty result; exactly one phrase gives the word
\* sequence of that phrase (its tokens normalised, the empty ones dropped),
\* joined by single spaces.
C3_ZeroOrOnePhrase ==
    pc = "calculated" =>
        /\ phrases = <<>> => computed = <<>>
        /\ Len(phrases) = 1 =>
               /\ Split(computed) = Words(phrases[1])
               /\ computed = Join(Words(phrases[1]), <<" ">>)

\* C3 witness: one phrase whose words needed normalising was given and its
\* word sequence was returned.
C3_Witness ==
    /\ pc = "calculated"
    /\ Len(phrases) = 1
    /\ computed # <<>>
    /\ computed # phrases[1]
    /\ Split(computed) = Words(phrases[1])

(***************************************************************************)
(* Properties of the document builder.                                     *)
(***************************************************************************)
RECURSIVE RenderFrom(_, _, _, _)
\* What a renderer shows for a dialogue text read from position i: the
\* visible characters, each with the colour and the alpha in force.  An
\* override block {\c<colour>} sets the colour and {\alpha&HXX&} the alpha,
\* until the next such block.
RenderFrom(text, i, colour, alpha) ==
    IF i > Len(text)
    THEN <<>>
    ELSE IF text[i] = "{\\c"
         THEN RenderFrom(text, i + 3, text[i + 1], alpha)
         ELSE IF text[i] = "{\\alpha&H00&}"
              THEN RenderFrom(text, i + 1, colour, "00")
              ELSE IF text[i] = "{\\alpha&HFF&}"
                   THEN RenderFrom(text, i + 1, colour, "FF")
                   ELSE IF text[i] = "{\\q3}"
                        THEN RenderFrom(text, i + 1, colour, alpha)
                        ELSE <<[ch |-> text[i], colour |-> colour,
                                alpha |-> alpha]>>
                             \o RenderFrom(text, i + 1, colour, alpha)

RECURSIVE ShownWordsFrom(_, _, _, _)
\* the rendered characters grouped into the words the spaces separate
ShownWordsFrom(shown, i, cur, acc) ==
    IF i > Len(shown)
    THEN IF cur = <<>> THEN acc ELSE Append(acc, cur)
    ELSE IF shown[i].ch = " "
         THEN ShownWordsFrom(shown, i + 1, <<>>,
                             IF cur = <<>> THEN acc ELSE Append(acc, cur))
         ELSE ShownWordsFrom(shown, i + 1, Append(cur, shown[i]), acc)

\* the words an event shows, under the primary colour of its style
ShownWords(event, primary) ==
    ShownWordsFrom(RenderFrom(event.Text, 1, primary, "00"), 1, <<>>, <<>>)

Letters(shown_word) == [i \in DOMAIN shown_word |-> shown_word[i].ch]

EventsOf(style) == SelectSeq(ass.events, LAMBDA e : e.Style = style)

\* the tokens of the phrase, as the builder splits it
PhraseTokens == Split(phrase)

\* C6: there are min(number of cues, number of phrase tokens) Highlight
\* events; the i-th carries the times of cue i and shows every phrase token,
\* transparent (alpha FF) except the token at position i, which is opaque.
C6_KaraokeEvents ==
    pc = "built" =>
        LET ks == EventsOf("Highlight")
        IN  /\ Len(ks) = Min(Len(cues), Len(PhraseTokens))
            /\ \A i \in DOMAIN ks :
                   LET shown == ShownWords(ks[i], "&H0000FF00")
                   IN  /\ ks[i].Start = seconds_to_ass_time(cues[i].start)
                       /\ ks[i].End = seconds_to_ass_time(cues[i].end)
                       /\ Len(shown) = Len(PhraseTokens)
                       /\ \A j \in DOMAIN shown :
                              /\ Letters(shown[j]) = PhraseTokens[j]
                              /\ \A n \in DOMAIN shown[j] :
                                     shown[j][n].alpha =
                                         IF j = i THEN "00" ELSE "FF"

\* C6 witness: more cues than phrase tokens, at least two karaoke events.
C6_Witness ==
    /\ pc = "built"
    /\ Len(cues) > Len(PhraseTokens)
    /\ Len(EventsOf("Highlight")) >= 2
    /\ Len(EventsOf("Highlight")) = Len(PhraseTokens)

\* the phrase tokens and the highlight target, normalised token by token
NormalizedTokens(text) ==
    [i \in DOMAIN Split(text) |-> normalize_word(Split(text)[i])]

\* the 0-based token positions of the leftmost occurrence of the target
LeftmostSpan(haystack, needle) ==
    IF needle = <<>> \/ Starts(haystack, needle) = {}
    THEN {}
    ELSE {LeastStart(haystack, needle) + k : k \in 0..(Len(needle) - 1)}

HighlightSpan ==
    LeftmostSpan(NormalizedTokens(phrase), NormalizedTokens(highlite_phrase))

\* C7: the Base event shows the phrase tokens; a token is in the highlight
\* colour exactly when its position lies in the leftmost occurrence of the
\* normalised target among the normalised tokens, and in the base colour
\* otherwise; with no occurrence no token is coloured.
C7_BaseHighlight ==
    pc = "built" =>
        /\ Len(EventsOf("Base")) = 1
        /\ LET shown == ShownWords(EventsOf("Base")[1], "&H00FFFFFF")
           IN  /\ Len(shown) = Len(PhraseTokens)
               /\ \A j \in DOMAIN shown :
                      /\ Letters(shown[j]) = PhraseTokens[j]
                      /\ \A n \in DOMAIN shown[j] :
                             shown[j][n].colour =
                                 IF j - 1 \in HighlightSpan
                                 THEN "&H0031D1FD"
                                 ELSE "&H00FFFFFF"

\* C7 witness: the target occurs twice in the phrase; the tokens of the
\* first occurrence are coloured and a token of the second one is not.
C7_Witness ==
    /\ pc = "built"
    /\ Cardinality(HighlightSpan) >= 2
    /\ Cardinality(Starts(NormalizedTokens(phrase),
                          NormalizedTokens(highlite_phrase))) >= 2
    /\ HighlightSpan # {}
    /\ LET shown == ShownWords(EventsOf("Base")[1], "&H00FFFFFF")
       IN  /\ \E j \in DOMAIN shown : shown[j][1].colour = "&H0031D1FD"
           /\ \E j \in DOMAIN shown : shown[j][1].colour = "&H00FFFFFF"

\* the window as the specification states it
WindowStart ==
    IF cues = <<>>
    THEN <<"0", ":", "0", "0", ":", "0", "0", ".", "0", "0">>
    ELSE seconds_to_ass_time(cues[1].start)

WindowEnd ==
    IF cues = <<>>
    THEN <<"0", ":", "0", "0", ":", "0", "5", ".", "0", "0">>
    ELSE seconds_to_ass_time(cues[Len(cues)].end)

SpansWindow(e) == e.Start = WindowStart /\ e.End = WindowEnd

WindowEvents ==
    SelectSeq(ass.events,
              LAMBDA e : e.Style \in {"Base", "Translation", "Website"})

\* C8 as stated: the Base, Translation and Website events span [start of
\* the first cue, end of the last cue], or [0 s, 5 s] without cues; without
\* cues there is no karaoke event and the Base event, the Website event
\* and, for a non-empty translation, the Translation event are emitted.
C8_Original ==
    pc = "built" =>
        /\ \A k \in DOMAIN WindowEvents : SpansWindow(WindowEvents[k])
        /\ cues = <<>> =>
               /\ EventsOf("Highlight") = <<>>
               /\ Len(EventsOf("Base")) = 1
               /\ Len(EventsOf("Website")) = 1
               /\ translation # <<>> => Len(EventsOf("Translation")) = 1

\* C8 amended: as C8_Original, the Translation event being emitted for a
\* translation that holds a character other than whitespace.
C8_Window ==
    pc = "built" =>
        /\ \A k \in DOMAIN WindowEvents : SpansWindow(WindowEvents[k])
        /\ Len(EventsOf("Base")) = 1
        /\ Len(EventsOf("Website")) = 1
        /\ cues = <<>> =>
               /\ EventsOf("Highlight") = <<>>
               /\ StripNonEmpty(translation) =>
                      Len(EventsOf("Translation")) = 1

\* C8 witness: a document built without cues for a translation with text;
\* its three events span [0 s, 5 s].
C8_Witness ==
    /\ pc = "built"
    /\ cues = <<>>
    /\ StripNonEmpty(translation)
    /\ Len(WindowEvents) = 3
    /\ \A k \in DOMAIN WindowEvents :
           /\ WindowEvents[k].Start[7] = "0"
           /\ WindowEvents[k].End[7] = "5"

\* C8 second witness: several cues, the last one ending before the first.
C8_WitnessCues ==
    /\ pc = "built"
    /\ Len(cues) >= 2
    /\ cues[1].end # cues[Len(cues)].end
    /\ SpansWindow(EventsOf("Base")[1])

\* C9 as stated: a non-empty translation gives exactly one Translation
\* event, spanning the window; an empty one gives none.
C9_Original ==
    pc = "built" =>
        /\ translation # <<>> =>
               /\ Len(EventsOf("Translation")) = 1
               /\ SpansWindow(EventsOf("Translation")[1])
        /\ translation = <<>> => EventsOf("Translation") = <<>>

\* C9 amended: a translation holding a character other than whitespace
\* gives exactly one Translation event, spanning the window; an empty or
\* whitespace-only translation gives none.
C9_Translation ==
    pc = "built" =>
        /\ StripNonEmpty(translation) =>
               /\ Len(EventsOf("Translation")) = 1
               /\ SpansWindow(EventsOf("Translation")[1])
        /\ ~StripNonEmpty(translation) => EventsOf("Translation") = <<>>

\* C9 witness: a translation with text and cues; one Translation event.
C9_Witness ==
    /\ pc = "built"
    /\ cues # <<>>
    /\ StripNonEmpty(translation)
    /\ Len(EventsOf("Translation")) = 1
    /\ SpansWindow(EventsOf("Translation")[1])

\* C9 second witness: a whitespace-only translation, no Translation event.
C9_WitnessBlank ==
    /\ pc = "built"
    /\ translation # <<>>
    /\ ~StripNonEmpty(translation)
    /\ EventsOf("Translation") = <<>>

(***************************************************************************)
(* Properties of the cue parser.                                           *)
(***************************************************************************)
\* the blocks of the file: the maximal runs i..j of lines that are not blank
BlockRanges ==
    LET firsts == {i \in DOMAIN content :
                      /\ ~IsBlank(content[i])
                      /\ i = 1 \/ IsBlank(content[i - 1])}
        lasts == {j \in DOMAIN content :
                     /\ ~IsBlank(content[j])
                     /\ j = Len(content) \/ IsBlank(content[j + 1])}
    IN  {<<i, MinOf({j \in lasts : j >= i})>> : i \in firsts}

\* a timecode: digits ':' digits ':' digits ',' digits
IsTimecode(t) ==
    LET marks == {n \in DOMAIN t : t[n] \notin DigitChars}
    IN  /\ Cardinality(marks) = 3
        /\ LET i == MinOf(marks)
               k == MaxOf(marks)
               j == CHOOSE n \in marks : n # i /\ n # k
           IN  /\ t[i] = ":" /\ t[j] = ":" /\ t[k] = ","
               /\ 1 < i /\ i + 1 < j /\ j + 1 < k /\ k < Len(t)

\* the line starts with 'start --> end': a timecode, the arrow (the first
\* one of the line, spaces allowed around it) and a timecode
IsTimeLine(line) ==
    LET arrows == {n \in DOMAIN line : line[n] = "-->"}
    IN  /\ arrows # {}
        /\ LET a == MinOf(arrows)
           IN  /\ \E e1 \in 1..(a - 1) :
                      /\ \A n \in (e1 + 1)..(a - 1) : line[n] = " "
                      /\ IsTimecode(SubSeq(line, 1, e1))
               /\ \E b2 \in (a + 1)..Len(line) :
                      /\ \A n \in (a + 1)..(b2 - 1) : line[n] = " "
                      /\ \E e2 \in b2..Len(line) :
                             IsTimecode(SubSeq(line, b2, e2))

\* the caption text of a block: its lines from the third on, joined by
\* spaces, without the whitespace that ends the block
BlockText(r) == RStrip(Join(SubSeq(content, r[1] + 2, r[2]), <<" ">>))

\* the text holds an opening marker and, after it, a closing one
HasMarker(text) ==
    \E i, j \in DOMAIN text : i < j /\ text[i] = "<u>" /\ text[j] = "</u>"

WellFormed(r) == r[2] - r[1] + 1 >= 3 /\ IsTimeLine(content[r[1] + 1])

Retained == {r \in BlockRanges : WellFormed(r) /\ HasMarker(BlockText(r))}

\* the k-th retained block in file order
RetainedAt(k) ==
    CHOOSE r \in Retained :
        Cardinality({q \in Retained : q[1] < r[1]}) = k - 1

\* C10: parsing a readable file raises nothing and yields one cue for each
\* block that has at least three lines, a 'start --> end' timecode line and
\* a marked text, and for no other block; the cues are in file order.
C10_RetainedBlocks ==
    pc = "parsed" =>
        /\ raised = "none"
        /\ srt_readable =>
               /\ Len(cues) = Cardinality(Retained)
               /\ \A k \in DOMAIN cues : cues[k].text = BlockText(RetainedAt(k))

\* C10 witness: a retained block, then a block of three lines whose
\* timecode line is malformed, then a retained block; two cues came out.
C10_Witness ==
    /\ pc = "parsed"
    /\ srt_readable
    /\ raised = "none"
    /\ Len(cues) = 2
    /\ cues[1].text # cues[2].text
    /\ \E r \in BlockRanges \ Retained :
           /\ r[2] - r[1] + 1 >= 3
           /\ ~IsTimeLine(content[r[1] + 1])
           /\ HasMarker(BlockText(r))
           /\ \E q1, q2 \in Retained : q1[2] < r[1] /\ r[2] < q2[1]

\* C10 second witness: a well-formed block without a marker was dropped and
\* the block after it was kept.
C10_WitnessNoMarker ==
    /\ pc = "parsed"
    /\ srt_readable
    /\ Len(cues) = 1
    /\ \E r \in BlockRanges \ Retained :
           /\ WellFormed(r)
           /\ \E q \in Retained : r[2] < q[1]

\* C11: every cue the parser hands on starts no later than it ends.
C11_StartLeEnd ==
    pc = "parsed" => \A k \in DOMAIN cues : cues[k].start <= cues[k].end

(***************************************************************************)
(* Properties of the time formatter.                                       *)
(***************************************************************************)
\* the fields of the string: hours, minutes, seconds, centiseconds
StampFields ==
    LET f == SplitOn(ass_time, ":")
        g == IF Len(f) = 3 THEN SplitOn(f[3], ".") ELSE <<>>
    IN  IF Len(f) = 3 /\ Len(g) = 2 THEN <<f[1], f[2], g[1], g[2]>> ELSE <<>>

\* H:MM:SS.cc, hours without a leading zero, minutes and seconds in 00..59
StampWellFormed ==
    /\ StampFields # <<>>
    /\ \A n \in 1..4 : IsInt(StampFields[n])
    /\ Len(StampFields[1]) = 1 \/ StampFields[1][1] # "0"
    /\ \A n \in 2..4 : Len(StampFields[n]) = 2
    /\ IntOf(StampFields[2]) <= 59
    /\ IntOf(StampFields[3]) <= 59

\* the time the string denotes, in centiseconds
StampCentis ==
    ((IntOf(StampFields[1]) * 60 + IntOf(StampFields[2])) * 60
        + IntOf(StampFields[3])) * 100 + IntOf(StampFields[4])

\* C12: the string returned for a whole number of milliseconds has the form
\* H:MM:SS.cc with minutes and seconds in 00..59, and denotes a centisecond
\* nearest to the time (either neighbour when the time lies halfway).
C12_StampFormat ==
    pc = "formatted" =>
        /\ StampWellFormed
        /\ 10 * StampCentis - seconds \in -5..5

(***************************************************************************)
(* Properties of the scaled geometry.                                      *)
(***************************************************************************)
\* the document the same call builds for a canvas 640 wide
BaselineDocument ==
    generate_ass_subtitles(cues, phrase, translation, 640, video_height,
                           highlite_phrase)

\* the geometry of a style: font size, outline, left, right and vertical
\* margins
Geometry(style) ==
    <<style.Fontsize, style.Outline, style.MarginL, style.MarginR,
      style.MarginV>>

\* C13: in a document built for a canvas 1280 wide, the font size, the
\* outline width, the left and right margins and the vertical margin of
\* every style are twice those of the document built for a canvas 640 wide.
C13_DoubleAt1280 ==
    pc = "built" /\ video_width = 1280 =>
        LET baseline == BaselineDocument.styles
        IN  /\ Len(ass.styles) = Len(baseline)
            /\ \A k \in DOMAIN ass.styles :
                   \A n \in 1..5 :
                       Geometry(ass.styles[k])[n]
                           = 2 * Geometry(baseline[k])[n]

\* C13 witness: a document 1280 wide with the three font sizes 76, 48 and
\* 40, the vertical margins 160, 40 and 20, side margins 20 and outline 4.
C13_Witness ==
    /\ pc = "built"
    /\ video_width = 1280
    /\ Geometry(ass.styles[1]) = <<76, 4, 20, 20, 160>>
    /\ Geometry(ass.styles[3]) = <<48, 4, 20, 20, 40>>
    /\ Geometry(ass.styles[4]) = <<40, 4, 20, 20, 20>>
    /\ Geometry(BaselineDocument.styles[1]) = <<38, 2, 10, 10, 80>>

(***************************************************************************)
(* Properties of the subset fallback.                                      *)
(***************************************************************************)
\* S comes before T in the lexicographic order of the combinations: the
\* least position in which they differ belongs to S
Precedes(S, T) == MinOf((S \ T) \cup (T \ S)) \in S

\* the run the lists of S have in common that is the longest, and the
\* leftmost of that length in the first list of S
SubsetRun(lists, S) ==
    LET first == lists[MinOf(S)]
        n == LongestIn(lists, S)
        s == MinOf({t \in 0..(Len(first) - n) :
                      SubSeq(first, t + 1, t + n) \in CommonRuns(lists, S)})
    IN  SubSeq(first, s + 1, s + n)

\* the subsets of size r whose common run has the greatest word count found
\* among the subsets of that size
Winners(lists, r) ==
    LET best == BestLen(lists, r)
    IN  {S \in SubsetsOfSize(Len(lists), r) :
            /\ CommonRuns(lists, S) # {}
            /\ LongestIn(lists, S) = best}

\* C15: when no run is common to all phrases and r is the largest size in
\* 2..total-1 at which some subset shares a run, the result is the run of the
\* subset that comes first, in the order of the combinations, among the
\* subsets of size r whose run has the greatest word count.
C15_FirstSubsetWins ==
    pc = "calculated" =>
        LET lists == NormalizedPhrases(phrases)
            total == Len(lists)
            sizes == {r \in 2..(total - 1) : Shared(lists, r)}
        IN  (total >= 2 /\ CommonRuns(lists, 1..total) = {} /\ sizes # {}) =>
                LET r == MaxOf(sizes)
                    winners == Winners(lists, r)
                    S == CHOOSE W \in winners :
                             \A T \in winners \ {W} : Precedes(W, T)
                IN  Split(computed) = SubsetRun(lists, S)

\* C15 witness: two subsets of the deciding size have different runs of the
\* same, greatest word count, and the run of the earlier subset was returned.
C15_Witness ==
    /\ pc = "calculated"
    /\ LET lists == NormalizedPhrases(phrases)
           total == Len(lists)
           sizes == {r \in 2..(total - 1) : Shared(lists, r)}
       IN  /\ total >= 2
           /\ CommonRuns(lists, 1..total) = {}
           /\ sizes # {}
           /\ \E S, T \in Winners(lists, MaxOf(sizes)) :
                  /\ S # T
                  /\ Precedes(S, T)
                  /\ SubsetRun(lists, S) # SubsetRun(lists, T)
                  /\ Split(computed) = SubsetRun(lists, S)

(***************************************************************************)
(* Properties of the tokens compared by the builder.                       *)
(***************************************************************************)
\* the 1-based positions of the words the Base event shows in the
\* highlight colour
ColouredWords ==
    LET shown == ShownWords(EventsOf("Base")[1], "&H00FFFFFF")
    IN  {j \in DOMAIN shown :
            \E n \in DOMAIN shown[j] : shown[j][n].colour = "&H0031D1FD"}

\* C18: no phrase token whose normalised form is empty lies in the span the
\* builder highlights, whatever the highlight target.
C18_NoEmptyTokenInSpan ==
    pc = "built" =>
        \A j \in ColouredWords : normalize_word(PhraseTokens[j]) # <<>>

(***************************************************************************)
(* Properties of the result of the matcher.                                *)
(***************************************************************************)
\* the positions of the phrases in which the returned words occur as a
\* contiguous run of the normalised words
Holders ==
    {i \in DOMAIN phrases : OccursIn(Split(computed), Words(phrases[i]))}

\* the positions of the phrases that hold at least one word
Worded == {i \in DOMAIN phrases : Words(phrases[i]) # <<>>}

\* C19 as stated: for two or more phrases, a result that is not empty occurs
\* in at least two of the phrases.
C19_Original ==
    pc = "calculated" /\ Len(phrases) >= 2 /\ computed # <<>> =>
        Cardinality(Holders) >= 2

\* C19: when at least two of the phrases hold a word, a result that is not
\* empty occurs, as a contiguous run of normalised words, in at least two of
\* the phrases.
C19_SharedByTwo ==
    pc = "calculated" /\ Cardinality(Worded) >= 2 /\ computed # <<>> =>
        Cardinality(Holders) >= 2

\* C19 witness: three phrases with words and no run common to all of them;
\* the result is not empty and occurs in exactly two of them.
C19_Witness ==
    /\ pc = "calculated"
    /\ Cardinality(Worded) = 3
    /\ computed # <<>>
    /\ Cardinality(Holders) = 2

(***************************************************************************)
(* Properties of the driver.                                               *)
(***************************************************************************)
\* the phrases of the videos retained
RetainedPhrases == [k \in DOMAIN video_data |-> video_data[k].phrase]

\* a document has been built
Built == unit # NoUnit

\* C16: a document is built only after the loop over the videos has visited
\* every video; it is built with the highlight phrase of the run, which is
\* the phrase the user gave, in lower case, or else the result of the matcher
\* on the phrases of all the videos retained when that result is not blank;
\* from the first document on, neither the highlight phrase nor the videos
\* retained change.
C16_PhraseFixedBeforeBuild ==
    /\ [](Built =>
            /\ video_i > Len(video_files)
            /\ highlite_phrase = chosen_phrase
            /\ StripNonEmpty(args_highlite_phrase) =>
                   chosen_phrase = Lower(args_highlite_phrase)
            /\ (/\ ~StripNonEmpty(args_highlite_phrase)
                /\ StripNonEmpty(calculate_highlight_phrase(RetainedPhrases)))
                   => chosen_phrase
                          = calculate_highlight_phrase(RetainedPhrases))
    /\ [][(Built \/ Built') =>
            /\ Built => chosen_phrase' = chosen_phrase
            /\ video_data' = video_data
            /\ video_i' = video_i]_vars

\* C16 witness: two videos retained, two languages, no phrase given; the
\* second video has been processed for the second language with the phrase
\* the matcher computed.
C16_Witness ==
    /\ Len(video_data) = 2
    /\ Len(languages) = 2
    /\ unit.video = 2
    /\ unit.lang = languages[2]
    /\ unit.result = "ok"
    /\ ~StripNonEmpty(args_highlite_phrase)
    /\ computed # <<>>
    /\ highlite_phrase = computed

\* C17: in multiple-language mode a unit fails only through a failure of one
\* of its own steps, and the run is never cut short.
C17_UnitsIndependent ==
    Len(languages) >= 2 =>
        /\ pc # "aborted"
        /\ unit.result # "ok" /\ Built => unit.fault # "none"

\* C20: when no phrase is given and, for two or more videos retained, the
\* matcher returns a run that occurs in the words of the phrase of every one
\* of them, the Base event of every document built colours as many
\* consecutive tokens of the phrase of its video as the run has words.
C20_CommonRunHighlighted ==
    (/\ Built
     /\ ~StripNonEmpty(args_highlite_phrase)
     /\ Len(phrases) >= 2
     /\ computed # <<>>
     /\ \A k \in DOMAIN phrases : OccursIn(Split(computed), Words(phrases[k])))
        => \E s \in DOMAIN PhraseTokens :
               ColouredWords = s..(s + Len(Split(computed)) - 1)

=============================================================================
